---- MODULE Spec2Model ----
(***************************************************************************)
(* A model of dags/crawler.py, the newsapi_crawler Airflow DAG: the daily  *)
(* snapshot / diff-and-notify / retention tasks over the Firestore         *)
(* collections, the article fetcher (as one step and page by page), the    *)
(* BigQuery table provisioner and loader, the construction of the Google   *)
(* Cloud clients under the redis cooldown key, and the wiring of the DAG.  *)
(*                                                                         *)
(* Dates are day numbers.  A Firestore collection is a function from       *)
(* document ids to documents; its DOMAIN is the set of documents that      *)
(* exist.                                                                  *)
(***************************************************************************)
EXTENDS Integers, Sequences, FiniteSets, TLC

VARIABLES
    branch,          \* the DAG branch a behaviour exercises
    store,           \* Firestore: collection name -> (document id -> document)
    topics,          \* Pub/Sub: the topics that exist
    published,       \* Pub/Sub: the messages published by the last task run
    status,          \* outcome of the last task run
    task_id,         \* the operator that ran last (or is running)
    execution_date,  \* its reference date (context['execution_date'])
    pc,              \* position of the running operator ("done": none runs)
    walk_date,       \* the local _date of a retention walk
    pre,             \* store as it was when the last task run started
    fetched,         \* what the content API returned to the last snapshotter run
    ti,              \* DAG run: task_id -> state of its task instance
    try_number,      \* DAG run: task_id -> number of tries started
    declared,        \* BIGQUERY_TABLE_SCHEMA, as loaded at import
    bq,              \* BigQuery: the dataset and the table
    bq_pre,          \* what the last provisioning found: bq, and the task run before it
    rows,            \* BigQuery: the rows of the table, in the order of their insertion
    rows_pre,        \* what the last load found: rows, and the task run before it
    articles,        \* Firestore: (date, keyword) partition -> (id -> article)
    articles_pre,    \* what the last fetch found: articles, and the fetch before it
    api_response,    \* what the content API returned to the last fetch
    dev_mode,        \* NEWSAPI_DEV_MODE
    keyword_index,   \* GetData: position of the loop over the keywords (0: not in it)
    page,            \* GetData: the local `page`
    requested,       \* keyword -> the pages the last fetch asked the API for, in order
    cpc,             \* _get_google_cloud_client: caller -> position of its call
    flag_ttl,        \* redis: seconds GOOGLE_TIMEOUT_KEY has left (0: the key is not set)
    remaining,       \* caller -> seconds left of its time.sleep
    flag_read,       \* caller -> what get_google_timeout() returned to its call
    failures,        \* caller -> DeadlineExceeded raised in its call
    retries,         \* caller -> sleeps after a DeadlineExceeded ended in its call
    sets,            \* caller -> set_google_timeout() calls of its call
    client,          \* caller -> the local `client` is not None
    since            \* caller -> seconds since its client was constructed (capped)

taskVars == <<task_id, execution_date, status, pc>>

snapVars == <<branch, store, topics, published, walk_date, pre, fetched>>

dagVars == <<ti, try_number>>

bqVars == <<declared, bq, bq_pre, rows, rows_pre>>

pageVars == <<keyword_index, page, requested>>

artVars == <<articles, articles_pre, api_response, dev_mode, pageVars>>

clientVars == <<cpc, flag_ttl, remaining, flag_read, failures, retries, sets, client, since>>

vars == <<taskVars, snapVars, dagVars, bqVars, artVars, clientVars>>

----------------------------------------------------------------------------
(* Bounds *)

MaxDay == 4

Days == 0..MaxDay

----------------------------------------------------------------------------
(* Module constants of crawler.py *)

GOOGLE_CLOUD_PROJECT == "project"

COLLECTION_SOURCES_KEY == "sources"

SOURCES_SCHEMA_KEY == "sources_schema"

ARTICLES_SCHEMA_KEY == "article_schema"

SOURCES_SCHEMA_SOURCES_KEY == "sources-schema"

ARTICLES_SCHEMA_SOURCES_KEY == "articles-schema"

----------------------------------------------------------------------------
(* Date formatting.  date.isoformat() is "YYYY-MM-DD"; datetime.isoformat() *)
(* of the same day is that string followed by the time of day.  A string is *)
(* modelled by the sequence of its parts.                                  *)

DateIso(d) == <<d>>

DateTimeIso(d) == <<d, "T00:00:00">>

\* self.execution_date.date().isoformat()
ExecutionDateKey(D) == DateIso(D)

\* as PrevExecutionDateKey, had the code taken .date() first
PrevExecutionDateKey_DateOnly(D) == DateIso(D - 1)

\* self.prev_execution_date.isoformat(), prev_execution_date = execution_date - 1 day
PrevExecutionDateKey(D) == DateTimeIso(D - 1)

\* as WalkStart, had the walk started at the previous day
WalkStart_FromPrev(D) == D - 1

\* as WalkStart, had the walk started one day further back
WalkStart_TwoBack(D) == (D - 1) - 2

\* (self.prev_execution_date.date() - timedelta(days=1)), as a day number
WalkStart(D) == (D - 1) - 1

----------------------------------------------------------------------------
(* Firestore documents *)

EmptyCollection == [k \in {} |-> {}]

Exists(collection, key) == key \in DOMAIN collection

\* as SetDocument, had set() kept a document that is already there
SetDocument_KeepExisting(collection, key, doc) ==
    [k \in (DOMAIN collection) \cup {key} |->
        IF k \in DOMAIN collection THEN collection[k] ELSE doc]

SetDocument(collection, key, doc) ==
    [k \in (DOMAIN collection) \cup {key} |-> IF k = key THEN doc ELSE collection[k]]

DeleteDocument(collection, key) ==
    [k \in (DOMAIN collection) \ {key} |-> collection[k]]

----------------------------------------------------------------------------
(* Pub/Sub *)

TopicPath(name) == <<"projects", GOOGLE_CLOUD_PROJECT, "topics", name>>

\* as check_pubsub_topic, without the create_topic call
check_pubsub_topic_NoCreate(existing, topic) == existing

\* check_pubsub_topic: the topics after the call
check_pubsub_topic(existing, topic) ==
    IF topic \notin existing THEN existing \cup {topic} ELSE existing

\* json.dumps({key: list(ids)}): a JSON object with the single key `key`.
\* list(set) has no specified order: the list is modelled by its set.
JsonDumps(key, ids) == [k \in {key} |-> ids]

\* one publish call; `about` is the snapshot kind whose code block publishes
Message(topic, about, key, ids) ==
    [topic |-> topic, about |-> about, data |-> JsonDumps(key, ids)]

\* as PublishIf, without the test `if len(...)`
PublishIf_Always(cond, msg) == <<msg>>

PublishIf(cond, msg) == IF cond THEN <<msg>> ELSE <<>>

----------------------------------------------------------------------------
\* as CheckAndPublishNewsSources_, without the return on a missing D-1
\* document: a missing document read as an empty one
CheckAndPublishNewsSources_NoGuard(sources_ref, D) ==
    LET topic == TopicPath(COLLECTION_SOURCES_KEY)
        Keys(key) == IF Exists(sources_ref, key) THEN sources_ref[key] ELSE {}
        current_keys == Keys(DateIso(D))
        prev_keys == Keys(DateTimeIso(D - 1))
        remove == prev_keys \ current_keys
        new == current_keys \ prev_keys
    IN  [published |->
             PublishIf(remove # {}, Message(topic, COLLECTION_SOURCES_KEY, "remove", remove))
             \o PublishIf(new # {}, Message(topic, COLLECTION_SOURCES_KEY, "new", new)),
         status |-> "success"]

(* CheckAndPublishNewsSources.execute_: the messages published and the      *)
(* outcome of the task, for the sources collection and reference date D.   *)
(* A sources document maps source ids to sources: it is modelled by the set *)
(* of its keys.  to_dict() of a missing document is None, and list(None)   *)
(* raises TypeError.                                                        *)

CheckAndPublishNewsSources_(sources_ref, D) ==
    LET topic == TopicPath(COLLECTION_SOURCES_KEY)
        cur == ExecutionDateKey(D)
        prev == PrevExecutionDateKey(D)
    IN  IF ~Exists(sources_ref, prev)
        THEN [published |-> <<>>, status |-> "success"]
        ELSE IF ~Exists(sources_ref, cur)
        THEN [published |-> <<>>, status |-> "failed"]
        ELSE LET current_keys == sources_ref[cur]
                 prev_keys == sources_ref[prev]
                 remove == prev_keys \ current_keys
                 new == current_keys \ prev_keys
             IN  [published |->
                      PublishIf(remove # {}, Message(topic, COLLECTION_SOURCES_KEY, "remove", remove))
                      \o PublishIf(new # {}, Message(topic, COLLECTION_SOURCES_KEY, "new", new)),
                  status |-> "success"]

\* as SchemaBlock, without the elif branch
SchemaBlock_NoBootstrap(ref, about, diff_topic, bootstrap_topic, D) ==
    IF Exists(ref, DateTimeIso(D - 1)) /\ Exists(ref, DateIso(D))
    THEN LET remove == ref[DateTimeIso(D - 1)].keys \ ref[DateIso(D)].keys
             new == ref[DateIso(D)].keys \ ref[DateTimeIso(D - 1)].keys
         IN  PublishIf(remove # {}, Message(diff_topic, about, "remove", remove))
             \o PublishIf(new # {}, Message(diff_topic, about, "new", new))
    ELSE <<>>

(* CheckDataSchemas.execute_, the block for one schema collection: `ref` is *)
(* the collection, diff_topic the topic of the both-exist path,            *)
(* bootstrap_topic the topic of the only-today path.  A schema document is *)
(* {'keys': [...]}.                                                         *)

SchemaBlock(ref, about, diff_topic, bootstrap_topic, D) ==
    LET cur == ExecutionDateKey(D)
        prev == PrevExecutionDateKey(D)
    IN  IF Exists(ref, prev) /\ Exists(ref, cur)
        THEN LET remove == ref[prev].keys \ ref[cur].keys
                 new == ref[cur].keys \ ref[prev].keys
             IN  PublishIf(remove # {}, Message(diff_topic, about, "remove", remove))
                 \o PublishIf(new # {}, Message(diff_topic, about, "new", new))
        ELSE IF Exists(ref, cur)
        THEN <<Message(bootstrap_topic, about, "new", ref[cur].keys)>>
        ELSE <<>>

CheckDataSchemas_(sources_schema_ref, article_schema_ref, D) ==
    LET sources_schema_topic == TopicPath(SOURCES_SCHEMA_SOURCES_KEY)
        articles_schema_topic == TopicPath(ARTICLES_SCHEMA_SOURCES_KEY)
    IN  [published |->
             SchemaBlock(sources_schema_ref, SOURCES_SCHEMA_KEY,
                         sources_schema_topic, articles_schema_topic, D)
             \o SchemaBlock(article_schema_ref, ARTICLES_SCHEMA_KEY,
                            articles_schema_topic, articles_schema_topic, D),
         status |-> "success"]

----------------------------------------------------------------------------
(* What the content API returns to the snapshotters *)

SourceIds == {"bbc", "cnn", "reuters"}

\* newsapi_client.get_sources()['sources'], by the ids of its entries
SourceLists == {{"bbc", "cnn"}, {"cnn", "reuters"}}

\* get_sources(language='en') and get_top_headlines(page_size=1, page=1): each
\* a list of objects, an object given by its field names
SchemaSamples ==
    { [sources |-> <<{"id", "name"}>>, top_headlines |-> <<{"url", "title"}>>],
      [sources |-> <<{"id", "name"}, {"name", "url"}>>, top_headlines |-> <<{"title"}>>],
      [sources |-> <<{"id"}>>, top_headlines |-> <<>>] }

\* list.pop(): the last element
Pop(list) == list[Len(list)]

----------------------------------------------------------------------------
(* Tasks.  One task runs at a time on the collections of its branch; any   *)
(* task may be run for any reference date.                                  *)

Idle == pc = "done"

\* the value of walk_date while no retention walk runs
NoDate == 0 - 1

\* the value of fetched when the last task run was not a snapshotter's
NoFetch == <<>>

Begin(id, D) ==
    /\ Idle
    /\ task_id' = id
    /\ execution_date' = D
    /\ pre' = store
    /\ walk_date' = IF id \in {"clear-old-source-data", "clear_old_schemas"}
                    THEN WalkStart(D) ELSE NoDate
    /\ UNCHANGED <<dagVars, bqVars, artVars, clientVars>>

\* GetNewsSources.execute_
GetNewsSources(D, sources) ==
    /\ branch = "sources"
    /\ Begin("get_news_sources", D)
    /\ store' = [store EXCEPT ![COLLECTION_SOURCES_KEY] =
                     SetDocument(@, ExecutionDateKey(D), sources)]
    /\ fetched' = sources
    /\ published' = <<>>
    /\ status' = "success"
    /\ UNCHANGED <<branch, topics, pc>>

\* CheckAndPublishNewsSources.execute_
CheckAndPublishNewsSources(D) ==
    /\ branch = "sources"
    /\ Begin("publish_news_sources", D)
    /\ topics' = check_pubsub_topic(topics, TopicPath(COLLECTION_SOURCES_KEY))
    /\ LET r == CheckAndPublishNewsSources_(store[COLLECTION_SOURCES_KEY], D)
       IN  published' = r.published /\ status' = r.status
    /\ fetched' = NoFetch
    /\ UNCHANGED <<branch, store, pc>>

\* ClearOldSourceData.execute_, up to the loop
ClearOldSourceData(D) ==
    /\ branch = "sources"
    /\ Begin("clear-old-source-data", D)
    /\ pc' = "walk_sources"
    /\ published' = <<>>
    /\ status' = "running"
    /\ fetched' = NoFetch
    /\ UNCHANGED <<branch, store, topics>>

\* as Walk, had the loop skipped missing dates instead of stopping at one
Walk_SkipMissing(collection, at, next) ==
    /\ pc = at
    /\ IF walk_date >= 0
       THEN /\ store' = [store EXCEPT ![collection] = DeleteDocument(@, DateIso(walk_date))]
            /\ walk_date' = walk_date - 1
            /\ UNCHANGED <<pc, status>>
       ELSE /\ pc' = next
            /\ walk_date' = IF next = "done" THEN NoDate ELSE WalkStart(execution_date)
            /\ status' = IF next = "done" THEN "success" ELSE status
            /\ UNCHANGED store
    /\ UNCHANGED <<branch, topics, published, task_id, execution_date, pre, fetched>>
    /\ UNCHANGED <<dagVars, bqVars, artVars, clientVars>>

\* one evaluation of a retention loop's condition, and its body or its exit
Walk(collection, at, next) ==
    /\ pc = at
    /\ IF Exists(store[collection], DateIso(walk_date))
       THEN /\ store' = [store EXCEPT ![collection] = DeleteDocument(@, DateIso(walk_date))]
            /\ walk_date' = walk_date - 1
            /\ UNCHANGED <<pc, status>>
       ELSE /\ pc' = next
            /\ walk_date' = IF next = "done" THEN NoDate ELSE WalkStart(execution_date)
            /\ status' = IF next = "done" THEN "success" ELSE status
            /\ UNCHANGED store
    /\ UNCHANGED <<branch, topics, published, task_id, execution_date, pre, fetched>>
    /\ UNCHANGED <<dagVars, bqVars, artVars, clientVars>>

ClearOldSourceDataWalk == Walk(COLLECTION_SOURCES_KEY, "walk_sources", "done")

\* GetDataSchemas.execute_: pop() of an empty list raises IndexError before
\* anything is written
GetDataSchemas(D, api) ==
    /\ branch = "schemas"
    /\ Begin("get_data_schemas", D)
    /\ IF Len(api.sources) = 0 \/ Len(api.top_headlines) = 0
       THEN /\ status' = "failed"
            /\ UNCHANGED store
       ELSE /\ status' = "success"
            /\ store' = [store EXCEPT
                  ![SOURCES_SCHEMA_KEY] =
                      SetDocument(@, ExecutionDateKey(D), [keys |-> Pop(api.sources)]),
                  ![ARTICLES_SCHEMA_KEY] =
                      SetDocument(@, ExecutionDateKey(D), [keys |-> Pop(api.top_headlines)])]
    /\ fetched' = api
    /\ published' = <<>>
    /\ UNCHANGED <<branch, topics, pc>>

\* CheckDataSchemas.execute_
CheckDataSchemas(D) ==
    /\ branch = "schemas"
    /\ Begin("check_data_schemas", D)
    /\ topics' = check_pubsub_topic(
                     check_pubsub_topic(topics, TopicPath(SOURCES_SCHEMA_SOURCES_KEY)),
                     TopicPath(ARTICLES_SCHEMA_SOURCES_KEY))
    /\ LET r == CheckDataSchemas_(store[SOURCES_SCHEMA_KEY], store[ARTICLES_SCHEMA_KEY], D)
       IN  published' = r.published /\ status' = r.status
    /\ fetched' = NoFetch
    /\ UNCHANGED <<branch, store, pc>>

\* ClearOldSchemas.execute_, up to the first loop
ClearOldSchemas(D) ==
    /\ branch = "schemas"
    /\ Begin("clear_old_schemas", D)
    /\ pc' = "walk_sources_schema"
    /\ published' = <<>>
    /\ status' = "running"
    /\ fetched' = NoFetch
    /\ UNCHANGED <<branch, store, topics>>

ClearOldSchemasWalkSources ==
    Walk(SOURCES_SCHEMA_KEY, "walk_sources_schema", "walk_article_schema")

ClearOldSchemasWalkArticles ==
    Walk(ARTICLES_SCHEMA_KEY, "walk_article_schema", "done")

(* The documents the notifiers read for the day before D are looked up     *)
(* under prev_execution_date.isoformat().  No task of the DAG writes under *)
(* that key; a document is there only if another writer of the Firestore   *)
(* project has put it.  The two actions below are that writer.             *)

NoTaskRan ==
    /\ Idle
    /\ task_id' = "none"
    /\ execution_date' = 0
    /\ status' = "none"
    /\ published' = <<>>
    /\ pre' = store
    /\ fetched' = NoFetch
    /\ UNCHANGED <<branch, topics, pc, walk_date>>
    /\ UNCHANGED <<dagVars, bqVars, artVars, clientVars>>

\* sources_ref.document(prev_execution_date) of line 328, written from outside
PutPrevSources(D, sources) ==
    /\ branch = "sources"
    /\ NoTaskRan
    /\ store' = [store EXCEPT ![COLLECTION_SOURCES_KEY] =
                     SetDocument(@, PrevExecutionDateKey(D), sources)]

\* the documents of lines 429 and 448, written from outside
PutPrevSchemas(D, api) ==
    /\ branch = "schemas"
    /\ NoTaskRan
    /\ Len(api.sources) > 0 /\ Len(api.top_headlines) > 0
    /\ store' = [store EXCEPT
          ![SOURCES_SCHEMA_KEY] =
              SetDocument(@, PrevExecutionDateKey(D), [keys |-> Pop(api.sources)]),
          ![ARTICLES_SCHEMA_KEY] =
              SetDocument(@, PrevExecutionDateKey(D), [keys |-> Pop(api.top_headlines)])]

----------------------------------------------------------------------------
(* The DAG.  t.set_upstream(u) makes u an upstream of t; a task instance   *)
(* is started only when every upstream task instance of the same run has   *)
(* succeeded, and a failed try is repeated `retries` times.                 *)

Tasks ==
    { "ping_news_api", "get_data_schemas", "check_data_schemas", "clear_old_schemas",
      "get_news_sources", "publish_news_sources", "clear-old-source-data",
      "get_data_api", "check_and_create_big_query_table", "loads_data_to_big_query" }

\* as Upstream, without get_data_task.set_upstream(clear_old_sources)
Upstream_NoSourcesEdge ==
    { <<"clear-old-source-data", "publish_news_sources">>,
      <<"publish_news_sources", "get_news_sources">>,
      <<"loads_data_to_big_query", "check_and_create_big_query_table">>,
      <<"check_and_create_big_query_table", "get_data_api">>,
      <<"get_data_api", "clear_old_schemas">>,
      <<"clear_old_schemas", "check_data_schemas">>,
      <<"check_data_schemas", "get_data_schemas">>,
      <<"get_news_sources", "ping_news_api">>,
      <<"get_data_schemas", "ping_news_api">> }

\* the set_upstream calls, each as <<task, its upstream>>
Upstream ==
    { <<"clear-old-source-data", "publish_news_sources">>,
      <<"publish_news_sources", "get_news_sources">>,
      <<"loads_data_to_big_query", "check_and_create_big_query_table">>,
      <<"check_and_create_big_query_table", "get_data_api">>,
      <<"get_data_api", "clear_old_schemas">>,
      <<"get_data_api", "clear-old-source-data">>,
      <<"clear_old_schemas", "check_data_schemas">>,
      <<"check_data_schemas", "get_data_schemas">>,
      <<"get_news_sources", "ping_news_api">>,
      <<"get_data_schemas", "ping_news_api">> }

UpstreamOf(t) == {e[2] : e \in {x \in Upstream : x[1] = t}}

\* default_args['retries']
Retries == 1

DagStep(t, from, to) ==
    /\ t \in Tasks
    /\ ti[t] \in from
    /\ ti' = [ti EXCEPT ![t] = to]
    /\ UNCHANGED <<taskVars, snapVars, bqVars, artVars, clientVars>>

TaskStart(t) ==
    /\ \A u \in UpstreamOf(t) : ti[u] = "success"
    /\ DagStep(t, {"none", "up_for_retry"}, "running")
    /\ try_number' = [try_number EXCEPT ![t] = @ + 1]

TaskSucceed(t) ==
    /\ DagStep(t, {"running"}, "success")
    /\ UNCHANGED try_number

TaskFail(t) ==
    /\ DagStep(t, {"running"}, IF try_number[t] <= Retries THEN "up_for_retry" ELSE "failed")
    /\ UNCHANGED try_number

TaskUpstreamFailed(t) ==
    /\ \E u \in UpstreamOf(t) : ti[u] \in {"failed", "upstream_failed"}
    /\ DagStep(t, {"none"}, "upstream_failed")
    /\ UNCHANGED try_number

----------------------------------------------------------------------------
(* BigQuery table provisioning.  A JSON object (a dict) is the sequence of *)
(* its <<key, value>> items, keys distinct; a table schema is a sequence of *)
(* SchemaField records.                                                     *)

RECURSIVE _get_field_schema(_, _)

_get_field_schema(field_name, field_schema) ==
    [ name |-> field_name,
      field_type |-> field_schema.type,
      fields |-> IF "fields" \in DOMAIN field_schema
                 THEN [i \in 1..Len(field_schema.fields) |->
                          _get_field_schema(field_schema.fields[i][1], field_schema.fields[i][2])]
                 ELSE <<>> ]

\* as NewFields, without the test `field_name not in current_names`
NewFields_NoNameTest(current_names, table_schema) ==
    [i \in 1..Len(table_schema) |-> _get_field_schema(table_schema[i][1], table_schema[i][2])]

\* the loop over BIGQUERY_TABLE_SCHEMA.items(): the fields appended
NewFields(current_names, table_schema) ==
    LET missing == SelectSeq(table_schema, LAMBDA item : item[1] \notin current_names)
    IN  [i \in 1..Len(missing) |-> _get_field_schema(missing[i][1], missing[i][2])]

\* CheckAndCreateBigQueryTable.execute_: BigQuery after the run
CheckAndCreateBigQueryTable_(b, table_schema) ==
    LET table == IF b.table.exists THEN b.table ELSE [exists |-> TRUE, schema |-> <<>>]
        current_schema == table.schema
        current_names == {current_schema[i].name : i \in 1..Len(current_schema)}
        new_schema == current_schema \o NewFields(current_names, table_schema)
    IN  [dataset |-> TRUE, table |-> [exists |-> TRUE, schema |-> new_schema]]

\* the schema files the DAG may be deployed with
TitleItems ==
    { <<>>, << <<"title", [type |-> "STRING"]>> >>, << <<"title", [type |-> "INTEGER"]>> >> }

SourceItems ==
    { <<>>,
      << <<"source", [type |-> "RECORD", fields |-> << <<"id", [type |-> "STRING"]>> >>]>> >>,
      << <<"source", [type |-> "RECORD",
                      fields |-> << <<"id", [type |-> "STRING"]>>,
                                    <<"name", [type |-> "STRING"]>> >>]>> >> }

DeclaredSchemas == {t \o r : t \in TitleItems, r \in SourceItems}

CheckAndCreateBigQueryTable ==
    /\ Idle
    /\ task_id' = "check_and_create_big_query_table"
    /\ status' = "success"
    /\ bq_pre' = [last |-> task_id, dataset |-> bq.dataset, table |-> bq.table]
    /\ bq' = CheckAndCreateBigQueryTable_(bq, declared)
    /\ UNCHANGED <<declared, rows, rows_pre>>
    /\ UNCHANGED <<execution_date, pc, snapVars, dagVars, artVars, clientVars>>

\* the DAG file is loaded again with another schema file
Redeploy(table_schema) ==
    /\ Idle
    /\ table_schema # declared
    /\ declared' = table_schema
    /\ task_id' = "none"
    /\ status' = "none"
    /\ bq_pre' = [last |-> "none", dataset |-> bq.dataset, table |-> bq.table]
    /\ UNCHANGED <<bq, rows, rows_pre>>
    /\ UNCHANGED <<execution_date, pc, snapVars, dagVars, artVars, clientVars>>

----------------------------------------------------------------------------
(* The article fetcher *)

MaxArticleDay == 1

ArticleDays == 0..MaxArticleDay

\* NEWSAPI_QUERY_KEYWORDS
NEWSAPI_QUERY_KEYWORDS == <<"k1", "k2">>

\* the page limit of development mode
DevPageCap == 10

\* hashlib.md5(bytes(url, 'utf8')).hexdigest(): a function of the bytes alone
Md5(bytes) == <<"md5", bytes>>

\* as ArticleId, had the hash covered the keyword too
ArticleId_WithKeyword(article, keyword) == Md5(<<article.url, keyword>>)

\* the document id GetData gives an article fetched for `keyword`
ArticleId(article, keyword) == Md5(article.url)

Partitions ==
    {<<DateIso(d), NEWSAPI_QUERY_KEYWORDS[i]>> :
        d \in ArticleDays, i \in 1..Len(NEWSAPI_QUERY_KEYWORDS)}

\* publishedAt of an article, as the sequence of its characters: with whole
\* seconds, with a fraction of a second, and a date alone
Seconds ==
    << "2", "0", "1", "9", "-", "0", "5", "-", "0", "1", "T",
       "1", "0", ":", "2", "0", ":", "3", "0" >>

StampZ == Seconds \o <<"Z">>

StampFraction == Seconds \o <<".", "1", "2", "5", "Z">>

StampDate == SubSeq(Seconds, 1, 10)

\* articles the content API may return: the same URL may come with an edited title
Article(url, title, publishedAt) ==
    [url |-> url, title |-> title, publishedAt |-> publishedAt]

\* get_everything(q=keyword, page=page)['articles'] of a response: the pages
\* it lists, then for the keywords of response.more one more article on every
\* further page, for the others empty pages
PageOf(response, keyword, page_) ==
    IF page_ <= Len(response[keyword]) THEN response[keyword][page_]
    ELSE IF keyword \in response.more THEN <<Article("p" \o ToString(page_), "t1", StampZ)>>
    ELSE <<>>

\* as DevStop, had the test been made one page later
DevStop_Late(dev, page_) == dev /\ page_ > DevPageCap + 1

\* if NEWSAPI_DEV_MODE and page > 10: break
DevStop(dev, page_) == dev /\ page_ > DevPageCap

RECURSIVE StoreArticles(_, _, _, _, _)

\* the loop over the articles of one page, from the i-th on
StoreArticles(keyword_ref, page_articles, i, keyword, D) ==
    IF i > Len(page_articles) THEN keyword_ref
    ELSE LET article == page_articles[i]
             hash == ArticleId(article, keyword)
             doc == [url |-> article.url, title |-> article.title,
                     publishedAt |-> article.publishedAt,
                     id |-> hash, keyword |-> keyword, date |-> DateIso(D)]
         IN  StoreArticles(SetDocument(keyword_ref, hash, doc), page_articles, i + 1, keyword, D)

RECURSIVE FetchPages(_, _, _, _, _, _)

\* the while loop of one keyword, from page `page` on
FetchPages(keyword_ref, response, keyword, page_, dev, D) ==
    IF DevStop(dev, page_) THEN keyword_ref
    ELSE LET page_articles == PageOf(response, keyword, page_)
         IN  IF Len(page_articles) = 0 THEN keyword_ref
             ELSE FetchPages(StoreArticles(keyword_ref, page_articles, 1, keyword, D),
                             response, keyword, page_ + 1, dev, D)

RECURSIVE FetchKeywords(_, _, _, _, _)

\* the loop over NEWSAPI_QUERY_KEYWORDS, from the i-th on
FetchKeywords(articles_ref, response, i, dev, D) ==
    IF i > Len(NEWSAPI_QUERY_KEYWORDS) THEN articles_ref
    ELSE LET keyword == NEWSAPI_QUERY_KEYWORDS[i]
         IN  FetchKeywords(
                 [articles_ref EXCEPT ![<<DateIso(D), keyword>>] =
                      FetchPages(@, response, keyword, 1, dev, D)],
                 response, i + 1, dev, D)

\* GetData.execute_: the articles collection after the run
GetData_(articles_ref, response, dev, D) == FetchKeywords(articles_ref, response, 1, dev, D)

\* what the API has for the keywords: the pages of each, all finite
ApiResponses ==
    { [k1 |-> << <<Article("u1", "t1", StampZ), Article("u2", "t1", StampDate)>> >>,
       k2 |-> << <<Article("u1", "t1", StampZ)>> >>, more |-> {}],
      [k1 |-> << <<Article("u1", "t2", StampFraction)>>, <<Article("u2", "t1", StampDate)>> >>,
       k2 |-> <<>>, more |-> {}],
      [k1 |-> << <<Article("u1", "t1", StampZ)>>, <<>>, <<Article("u2", "t2", StampFraction)>> >>,
       k2 |-> << <<Article("u2", "t1", StampDate), Article("u1", "t2", StampFraction), Article("u1", "t1", StampZ)>> >>,
       more |-> {}] }

NoResponse == [k1 |-> <<>>, k2 |-> <<>>, more |-> {}]

NoRequests == [i \in 1..Len(NEWSAPI_QUERY_KEYWORDS) |-> <<>>]

GetData(D, response) ==
    /\ Idle
    /\ task_id' = "get_data_api"
    /\ execution_date' = D
    /\ status' = "success"
    /\ api_response' = response
    /\ articles_pre' = [last |-> task_id, date |-> execution_date,
                         response |-> api_response, docs |-> articles]
    /\ articles' = GetData_(articles, response, dev_mode, D)
    /\ UNCHANGED <<dev_mode, pageVars, pc, snapVars, dagVars, bqVars, clientVars>>

(* GetData.execute_ step by step: one action for the code up to the loops, *)
(* one for each evaluation of the body of `while True`.                    *)

\* the most pages a fetch is followed through
MaxPage == 12

\* an API that for some keywords has a further article on every page
EndlessResponses ==
    { [k1 |-> <<>>, k2 |-> << <<Article("u1", "t1", StampZ)>> >>, more |-> {"k1"}],
      [k1 |-> << <<Article("u1", "t1", StampZ)>> >>, k2 |-> <<>>, more |-> {"k2"}],
      [k1 |-> <<>>, k2 |-> <<>>, more |-> {"k1", "k2"}] }

GetDataStart(D, response) ==
    /\ Idle
    /\ task_id' = "get_data_api"
    /\ execution_date' = D
    /\ status' = "running"
    /\ pc' = "fetch"
    /\ api_response' = response
    /\ articles_pre' = [last |-> task_id, date |-> execution_date,
                         response |-> api_response, docs |-> articles]
    /\ keyword_index' = 1
    /\ page' = 1
    /\ requested' = NoRequests
    /\ UNCHANGED <<articles, dev_mode, snapVars, dagVars, bqVars, clientVars>>

\* break, or the end of the loop body of the last page: on to the next keyword
NextKeyword ==
    IF keyword_index < Len(NEWSAPI_QUERY_KEYWORDS)
    THEN /\ keyword_index' = keyword_index + 1
         /\ page' = 1
         /\ UNCHANGED <<pc, status>>
    ELSE /\ keyword_index' = 0
         /\ page' = 0
         /\ pc' = "done"
         /\ status' = "success"

GetDataPage ==
    /\ pc = "fetch"
    /\ page <= MaxPage
    /\ LET keyword == NEWSAPI_QUERY_KEYWORDS[keyword_index]
           partition == <<DateIso(execution_date), keyword>>
           page_articles == PageOf(api_response, keyword, page)
       IN  IF DevStop(dev_mode, page)
           THEN /\ NextKeyword
                /\ UNCHANGED <<articles, requested>>
           ELSE /\ requested' = [requested EXCEPT ![keyword_index] = Append(@, page)]
                /\ IF Len(page_articles) = 0
                   THEN /\ NextKeyword
                        /\ UNCHANGED articles
                   ELSE /\ articles' = [articles EXCEPT ![partition] =
                               StoreArticles(@, page_articles, 1, keyword, execution_date)]
                        /\ page' = page + 1
                        /\ UNCHANGED <<keyword_index, pc, status>>
    /\ UNCHANGED <<task_id, execution_date, api_response, articles_pre, dev_mode>>
    /\ UNCHANGED <<snapVars, dagVars, bqVars, clientVars>>

----------------------------------------------------------------------------
(* The warehouse loader *)

\* the length publishedAt is cut to
PublishedAtLen == 19

\* as Slice, without the cut
Slice_Whole(string, n) == string

\* string[:n]
Slice(string, n) == SubSeq(string, 1, IF Len(string) < n THEN Len(string) ELSE n)

RECURSIVE stream(_)

\* keyword_ref.stream(): the documents of a collection, each once, in the
\* order the store yields them (a fixed order the program does not choose)
stream(keyword_ref) ==
    IF DOMAIN keyword_ref = {} THEN <<>>
    ELSE LET id == CHOOSE k \in DOMAIN keyword_ref : TRUE
         IN  <<[id |-> id, dict |-> keyword_ref[id]]>> \o stream(DeleteDocument(keyword_ref, id))

\* d[key] = value on a dict
SetItem(d, key, value) ==
    [k \in (DOMAIN d) \cup {key} |-> IF k = key THEN value ELSE d[k]]

\* the row made of one streamed document
Row(article, current_date) ==
    LET row == article.dict
        with_id == SetItem(row, "id", article.id)
        with_published == SetItem(with_id, "publishedAt",
                                  Slice(with_id["publishedAt"], PublishedAtLen))
    IN  SetItem(with_published, "date", current_date)

\* the rows inserted for one keyword, one insert_rows_json call each
KeywordRows(keyword_ref, current_date) ==
    LET docs == stream(keyword_ref)
    IN  [j \in 1..Len(docs) |-> Row(docs[j], current_date)]

RECURSIVE LoadKeywords(_, _, _)

\* the loop over NEWSAPI_QUERY_KEYWORDS, from the i-th on: the rows inserted
LoadKeywords(articles_ref, i, D) ==
    IF i > Len(NEWSAPI_QUERY_KEYWORDS) THEN <<>>
    ELSE KeywordRows(articles_ref[<<DateIso(D), NEWSAPI_QUERY_KEYWORDS[i]>>], DateIso(D))
         \o LoadKeywords(articles_ref, i + 1, D)

\* the most rows the table may hold when a load starts
MaxRows == 6

\* LoadsDataToBigQuery.execute_: get_table raises NotFound if there is no table
LoadsDataToBigQuery(D) ==
    /\ Idle
    /\ Len(rows) <= MaxRows
    /\ task_id' = "loads_data_to_big_query"
    /\ execution_date' = D
    /\ rows_pre' = [last |-> task_id, date |-> execution_date, rows |-> rows]
    /\ IF bq.table.exists
       THEN /\ rows' = rows \o LoadKeywords(articles, 1, D)
            /\ status' = "success"
       ELSE /\ rows' = rows
            /\ status' = "failed"
    /\ UNCHANGED <<declared, bq, bq_pre>>
    /\ UNCHANGED <<pc, snapVars, dagVars, artVars, clientVars>>

----------------------------------------------------------------------------
(* _get_google_cloud_client, called by tasks that run at the same time.  A  *)
(* step of a call takes no time; time passes in seconds (Tick).             *)

Callers == {"t1", "t2"}

\* GOOGLE_CLOUD_TIMEOUT, a number of seconds read from the environment
GOOGLE_CLOUD_TIMEOUT == 2

\* the expiry set_google_timeout gives the key: redis_client.set(name, value, 1)
FlagExpiry == 1

\* the most DeadlineExceeded one call is made to meet
MaxFailures == 2

NoClient == 0 - 1

ClientStep(t, from, to) ==
    /\ cpc[t] = from
    /\ cpc' = [cpc EXCEPT ![t] = to]
    /\ UNCHANGED <<taskVars, snapVars, dagVars, bqVars, artVars>>

\* as get_google_timeout, had the read also set the key (GETSET)
get_google_timeout_AndSet(t) ==
    /\ flag_read' = [flag_read EXCEPT ![t] = IF flag_ttl > 0 THEN "set" ELSE "unset"]
    /\ flag_ttl' = FlagExpiry

\* get_google_timeout(): redis_client.get(GOOGLE_TIMEOUT_KEY)
get_google_timeout(t) ==
    /\ flag_read' = [flag_read EXCEPT ![t] = IF flag_ttl > 0 THEN "set" ELSE "unset"]
    /\ UNCHANGED flag_ttl

\* if get_google_timeout(): time.sleep(GOOGLE_CLOUD_TIMEOUT)
CheckTimeout(t) ==
    /\ ClientStep(t, "call", IF flag_ttl > 0 THEN "sleep_timeout" ELSE "construct")
    /\ get_google_timeout(t)
    /\ remaining' = [remaining EXCEPT ![t] = IF flag_ttl > 0 THEN GOOGLE_CLOUD_TIMEOUT ELSE 0]
    /\ UNCHANGED <<failures, retries, sets, client, since>>

\* time.sleep(GOOGLE_CLOUD_TIMEOUT) of line 100 returns
TimeoutSlept(t) ==
    /\ ClientStep(t, "sleep_timeout", "construct")
    /\ remaining[t] = 0
    /\ UNCHANGED <<flag_ttl, remaining, flag_read, failures, retries, sets, client, since>>

\* client = google_cloud_module.Client() returns a client
ClientConstructed(t) ==
    /\ ClientStep(t, "construct", "set_timeout")
    /\ client' = [client EXCEPT ![t] = TRUE]
    /\ since' = [since EXCEPT ![t] = 0]
    /\ UNCHANGED <<flag_ttl, remaining, flag_read, failures, retries, sets>>

\* as DeadlineExceeded_, without the except clause
DeadlineExceeded_Raised(t) ==
    /\ ClientStep(t, "construct", "raised")
    /\ failures[t] < MaxFailures
    /\ failures' = [failures EXCEPT ![t] = @ + 1]
    /\ UNCHANGED <<flag_ttl, remaining, flag_read, retries, sets, client, since>>

\* Client() raises DeadlineExceeded: except DeadlineExceeded: time.sleep(...)
DeadlineExceeded_(t) ==
    /\ ClientStep(t, "construct", "sleep_retry")
    /\ failures[t] < MaxFailures
    /\ failures' = [failures EXCEPT ![t] = @ + 1]
    /\ remaining' = [remaining EXCEPT ![t] = GOOGLE_CLOUD_TIMEOUT]
    /\ UNCHANGED <<flag_ttl, flag_read, retries, sets, client, since>>

\* time.sleep(GOOGLE_CLOUD_TIMEOUT) of line 108 returns: `while client is None` again
RetrySlept(t) ==
    /\ ClientStep(t, "sleep_retry", "construct")
    /\ remaining[t] = 0
    /\ retries' = [retries EXCEPT ![t] = @ + 1]
    /\ UNCHANGED <<flag_ttl, remaining, flag_read, failures, sets, client, since>>

\* set_google_timeout(); return client
set_google_timeout(t) ==
    /\ ClientStep(t, "set_timeout", "returned")
    /\ flag_ttl' = FlagExpiry
    /\ sets' = [sets EXCEPT ![t] = @ + 1]
    /\ UNCHANGED <<remaining, flag_read, failures, retries, client, since>>

\* the caller's task calls _get_google_cloud_client again (get_store_client,
\* then get_publisher_client or get_bigquery_client)
CallAgain(t) ==
    /\ ClientStep(t, "returned", "call")
    /\ flag_read' = [flag_read EXCEPT ![t] = "none"]
    /\ failures' = [failures EXCEPT ![t] = 0]
    /\ retries' = [retries EXCEPT ![t] = 0]
    /\ sets' = [sets EXCEPT ![t] = 0]
    /\ client' = [client EXCEPT ![t] = FALSE]
    /\ since' = [since EXCEPT ![t] = NoClient]
    /\ UNCHANGED <<flag_ttl, remaining>>

Less(n) == IF n > 0 THEN n - 1 ELSE 0

\* a second passes: the key nears its expiry, the sleepers their waking
Tick ==
    /\ flag_ttl' = Less(flag_ttl)
    /\ remaining' = [t \in Callers |-> Less(remaining[t])]
    /\ since' = [t \in Callers |->
                    IF since[t] = NoClient \/ since[t] = GOOGLE_CLOUD_TIMEOUT
                    THEN since[t] ELSE since[t] + 1]
    /\ UNCHANGED <<cpc, flag_read, failures, retries, sets, client>>
    /\ UNCHANGED <<taskVars, snapVars, dagVars, bqVars, artVars>>

----------------------------------------------------------------------------

EmptyStore ==
    [c \in {COLLECTION_SOURCES_KEY, SOURCES_SCHEMA_KEY, ARTICLES_SCHEMA_KEY} |-> EmptyCollection]

NoTask ==
    /\ status = "none"
    /\ task_id = "none"
    /\ execution_date = 0
    /\ pc = "done"

SnapInit ==
    /\ store = EmptyStore
    /\ topics = {}
    /\ published = <<>>
    /\ walk_date = NoDate
    /\ pre = EmptyStore
    /\ fetched = NoFetch

DagInit ==
    /\ ti = [t \in Tasks |-> "none"]
    /\ try_number = [t \in Tasks |-> 0]

EmptyBigQuery == [dataset |-> FALSE, table |-> [exists |-> FALSE, schema |-> <<>>]]

BqInit ==
    /\ bq = EmptyBigQuery
    /\ bq_pre = [last |-> "none", dataset |-> FALSE, table |-> EmptyBigQuery.table]
    /\ rows = <<>>
    /\ rows_pre = [last |-> "none", date |-> 0, rows |-> <<>>]

EmptyArticles == [p \in Partitions |-> EmptyCollection]

ClientInit ==
    /\ cpc = [t \in Callers |-> "call"]
    /\ flag_ttl = 0
    /\ remaining = [t \in Callers |-> 0]
    /\ flag_read = [t \in Callers |-> "none"]
    /\ failures = [t \in Callers |-> 0]
    /\ retries = [t \in Callers |-> 0]
    /\ sets = [t \in Callers |-> 0]
    /\ client = [t \in Callers |-> FALSE]
    /\ since = [t \in Callers |-> NoClient]

ArtInit ==
    /\ articles = EmptyArticles
    /\ articles_pre = [last |-> "none", date |-> 0,
                        response |-> NoResponse, docs |-> EmptyArticles]
    /\ api_response = NoResponse
    /\ keyword_index = 0
    /\ page = 0
    /\ requested = NoRequests

(* The snapshot tasks: each branch of the DAG on its own collections *)

Init ==
    /\ branch \in {"sources", "schemas"}
    /\ NoTask /\ SnapInit /\ DagInit /\ BqInit /\ ArtInit /\ ClientInit
    /\ declared = <<>>
    /\ dev_mode = FALSE

Next ==
    \/ \E D \in Days, sources \in SourceLists : GetNewsSources(D, sources)
    \/ \E D \in Days : CheckAndPublishNewsSources(D)
    \/ \E D \in Days : ClearOldSourceData(D)
    \/ ClearOldSourceDataWalk
    \/ \E D \in Days, api \in SchemaSamples : GetDataSchemas(D, api)
    \/ \E D \in Days : CheckDataSchemas(D)
    \/ \E D \in Days : ClearOldSchemas(D)
    \/ ClearOldSchemasWalkSources
    \/ ClearOldSchemasWalkArticles

Spec == Init /\ [][Next]_vars

\* a running retention loop goes on running
Walks == ClearOldSourceDataWalk \/ ClearOldSchemasWalkSources \/ ClearOldSchemasWalkArticles

FairSpec == Spec /\ WF_vars(Walks)

(* One run of the DAG *)

DagSpecInit ==
    /\ branch = "none"
    /\ NoTask /\ SnapInit /\ DagInit /\ BqInit /\ ArtInit /\ ClientInit
    /\ declared = <<>>
    /\ dev_mode = FALSE

DagNext ==
    \/ \E t \in Tasks : TaskStart(t)
    \/ \E t \in Tasks : TaskSucceed(t)
    \/ \E t \in Tasks : TaskFail(t)
    \/ \E t \in Tasks : TaskUpstreamFailed(t)

DagSpec == DagSpecInit /\ [][DagNext]_vars

(* The table provisioner, under the schema files of successive deployments *)

TableSpecInit ==
    /\ branch = "none"
    /\ NoTask /\ SnapInit /\ DagInit /\ BqInit /\ ArtInit /\ ClientInit
    /\ declared \in DeclaredSchemas
    /\ dev_mode = FALSE

TableNext ==
    \/ CheckAndCreateBigQueryTable
    \/ \E table_schema \in DeclaredSchemas : Redeploy(table_schema)

TableSpec == TableSpecInit /\ [][TableNext]_vars

(* The article fetcher *)

ArticleSpecInit ==
    /\ branch = "none"
    /\ NoTask /\ SnapInit /\ DagInit /\ BqInit /\ ArtInit /\ ClientInit
    /\ declared = <<>>
    /\ dev_mode \in BOOLEAN

ArticleNext ==
    \E D \in ArticleDays, response \in ApiResponses : GetData(D, response)

ArticleSpec == ArticleSpecInit /\ [][ArticleNext]_vars

(* Two tasks in _get_google_cloud_client *)

ClientCall(t) ==
    \/ CheckTimeout(t)
    \/ TimeoutSlept(t)
    \/ ClientConstructed(t)
    \/ DeadlineExceeded_(t)
    \/ RetrySlept(t)
    \/ set_google_timeout(t)

ClientNext ==
    \/ \E t \in Callers : ClientCall(t)
    \/ \E t \in Callers : CallAgain(t)
    \/ Tick

\* a call that can take a step takes one, and time passes
ClientSpec ==
    /\ DagSpecInit
    /\ [][ClientNext]_vars
    /\ WF_vars(Tick)
    /\ \A t \in Callers : WF_vars(ClientCall(t))

(* The article fetcher page by page, also against an API that never runs   *)
(* out of pages                                                             *)

\* the fetcher may run for D: in the first run of the DAG, and in the run of
\* the day after its last one
FetchDue(D) ==
    \/ task_id = "none" /\ D = 0
    \/ task_id = "get_data_api" /\ status = "success" /\ D = execution_date + 1

FetchNext ==
    \/ \E D \in ArticleDays, response \in ApiResponses \cup EndlessResponses :
           FetchDue(D) /\ GetDataStart(D, response)
    \/ GetDataPage

FetchSpec == ArticleSpecInit /\ [][FetchNext]_vars /\ WF_vars(GetDataPage)

(* Consecutive daily runs of one branch, from the first run on an empty    *)
(* store.  schedule_interval is one day; within a run a task starts once   *)
(* its upstream task has succeeded, a failed snapshotter is tried again,   *)
(* and the next day's run follows the pruner of the day before.            *)

Snapshotters == {"get_news_sources", "get_data_schemas"}

Pruners == {"clear-old-source-data", "clear_old_schemas"}

\* the Snapshotter may run for D
SnapshotDue(D) ==
    /\ Idle
    /\ \/ task_id = "none" /\ D = 0
       \/ task_id \in Pruners /\ status = "success" /\ D = execution_date + 1
       \/ task_id \in Snapshotters /\ status = "failed" /\ D = execution_date

\* the task after `upstream` may run for D
DownstreamDue(upstream, D) ==
    /\ Idle
    /\ task_id = upstream
    /\ status = "success"
    /\ D = execution_date

DailyNext ==
    \/ \E D \in Days, sources \in SourceLists :
           SnapshotDue(D) /\ GetNewsSources(D, sources)
    \/ \E D \in Days :
           DownstreamDue("get_news_sources", D) /\ CheckAndPublishNewsSources(D)
    \/ \E D \in Days :
           DownstreamDue("publish_news_sources", D) /\ ClearOldSourceData(D)
    \/ ClearOldSourceDataWalk
    \/ \E D \in Days, api \in SchemaSamples :
           SnapshotDue(D) /\ GetDataSchemas(D, api)
    \/ \E D \in Days :
           DownstreamDue("get_data_schemas", D) /\ CheckDataSchemas(D)
    \/ \E D \in Days :
           DownstreamDue("check_data_schemas", D) /\ ClearOldSchemas(D)
    \/ ClearOldSchemasWalkSources
    \/ ClearOldSchemasWalkArticles

DailySpec == Init /\ [][DailyNext]_vars

(* Fetcher, provisioner and loader in daily runs.  The loader may also be  *)
(* run by itself before any run of the DAG, and be run again for its day.  *)

\* the fetcher may start the run of day D
LoadRunDue(D) ==
    \/ task_id = "none" /\ D = 0
    \/ DownstreamDue("loads_data_to_big_query", D - 1)

LoaderDue(D) ==
    \/ task_id = "none" /\ D = 0
    \/ DownstreamDue("check_and_create_big_query_table", D)
    \/ DownstreamDue("loads_data_to_big_query", D)

LoaderNext ==
    \/ \E D \in ArticleDays, response \in ApiResponses :
           LoadRunDue(D) /\ GetData(D, response)
    \/ \E D \in ArticleDays :
           DownstreamDue("get_data_api", D) /\ CheckAndCreateBigQueryTable
    \/ \E D \in ArticleDays :
           LoaderDue(D) /\ LoadsDataToBigQuery(D)

LoaderSpec == ArticleSpecInit /\ [][LoaderNext]_vars

(* The notifiers on a store that other writers share: every path of the    *)
(* notifiers can be taken                                                   *)

MaxWireDay == 1

WireDays == 0..MaxWireDay

WireNext ==
    \/ \E D \in WireDays, sources \in SourceLists : GetNewsSources(D, sources)
    \/ \E D \in WireDays, sources \in SourceLists : PutPrevSources(D, sources)
    \/ \E D \in WireDays : CheckAndPublishNewsSources(D)
    \/ \E D \in WireDays, api \in SchemaSamples : GetDataSchemas(D, api)
    \/ \E D \in WireDays, api \in SchemaSamples : PutPrevSchemas(D, api)
    \/ \E D \in WireDays : CheckDataSchemas(D)

WireSpec == Init /\ [][WireNext]_vars

----------------------------------------------------------------------------
(* Vocabulary of the properties.  The snapshot of collection c for day d is *)
(* the document the Snapshotter writes for that day.                       *)

Collections == {COLLECTION_SOURCES_KEY, SOURCES_SCHEMA_KEY, ARTICLES_SCHEMA_KEY}

SchemaCollections == {SOURCES_SCHEMA_KEY, ARTICLES_SCHEMA_KEY}

SnapshotExists(st, c, d) == Exists(st[c], DateIso(d))

SnapshotKeys(st, c, d) ==
    IF c = COLLECTION_SOURCES_KEY THEN st[c][DateIso(d)] ELSE st[c][DateIso(d)].keys

SnapshotDays(st, c) == {d \in (0 - 2)..MaxDay : SnapshotExists(st, c, d)}

NotifierOf(c) ==
    IF c = COLLECTION_SOURCES_KEY THEN "publish_news_sources" ELSE "check_data_schemas"

PrunerOf(c) ==
    IF c = COLLECTION_SOURCES_KEY THEN "clear-old-source-data" ELSE "clear_old_schemas"

Ran(id) == Idle /\ task_id = id

PublishedAbout(c) == SelectSeq(published, LAMBDA m : m.about = c)

\* the run published, about c, exactly the messages whose bodies are `bodies`
PublishedExactly(c, bodies) ==
    LET ms == PublishedAbout(c)
    IN  /\ {ms[i].data : i \in 1..Len(ms)} = bodies
        /\ Len(ms) = Cardinality(bodies)

ExpectedDiff(Y, T) ==
    (IF Y \ T # {} THEN {JsonDumps("remove", Y \ T)} ELSE {})
    \cup (IF T \ Y # {} THEN {JsonDumps("new", T \ Y)} ELSE {})

\* C1: when the snapshots for the reference date D and for D-1 both exist, a
\* run of the Diff Notifier (each of the three variants) publishes exactly
\* {remove: Y \ T} if non-empty and {new: T \ Y} if non-empty.
C1_DiffPublishedWhenBothExist ==
    \A c \in Collections :
        ( /\ Ran(NotifierOf(c))
          /\ SnapshotExists(store, c, execution_date)
          /\ SnapshotExists(store, c, execution_date - 1) )
        => PublishedExactly(c, ExpectedDiff(SnapshotKeys(store, c, execution_date - 1),
                                           SnapshotKeys(store, c, execution_date)))

\* C2: with no sources snapshot for D-1, a run of CheckAndPublishNewsSources
\* publishes nothing and succeeds, whether or not the snapshot for D exists;
\* it publishes only if both snapshots exist.
C2_SourcesColdStartSilent ==
    Ran("publish_news_sources") =>
        /\ ~SnapshotExists(store, COLLECTION_SOURCES_KEY, execution_date - 1)
              => (published = <<>> /\ status = "success")
        /\ published # <<>>
              => /\ SnapshotExists(store, COLLECTION_SOURCES_KEY, execution_date)
                 /\ SnapshotExists(store, COLLECTION_SOURCES_KEY, execution_date - 1)

C2_Witness ==
    /\ Ran("publish_news_sources")
    /\ SnapshotExists(store, COLLECTION_SOURCES_KEY, execution_date)
    /\ ~SnapshotExists(store, COLLECTION_SOURCES_KEY, execution_date - 1)
    /\ SnapshotDays(store, COLLECTION_SOURCES_KEY) # {execution_date}
    /\ published = <<>>
    /\ status = "success"

\* C3: for each schema kind, if the snapshot for D exists and the one for D-1
\* does not, a run of CheckDataSchemas publishes exactly one message about
\* that kind, {new: K} with K the keys of the D snapshot; if neither exists
\* it publishes nothing about that kind.
C3_SchemaBootstrap ==
    \A c \in SchemaCollections :
        ( Ran("check_data_schemas")
          /\ ~SnapshotExists(store, c, execution_date - 1) )
        => IF SnapshotExists(store, c, execution_date)
           THEN PublishedExactly(c, {JsonDumps("new", SnapshotKeys(store, c, execution_date))})
           ELSE PublishedAbout(c) = <<>>

C3_Witness ==
    /\ Ran("check_data_schemas")
    /\ status = "success"
    /\ \A c \in SchemaCollections :
          /\ SnapshotExists(store, c, execution_date)
          /\ ~SnapshotExists(store, c, execution_date - 1)
          /\ Len(PublishedAbout(c)) = 1
    /\ Len(published) = 2

pc_collection ==
    CASE pc = "walk_sources" -> COLLECTION_SOURCES_KEY
      [] pc = "walk_sources_schema" -> SOURCES_SCHEMA_KEY
      [] pc = "walk_article_schema" -> ARTICLES_SCHEMA_KEY

\* the first day, walking back from D-2, that has no snapshot in collection c
FirstMissing(st, c, D) ==
    CHOOSE g \in (0 - 2)..WalkStart(D) :
        /\ ~SnapshotExists(st, c, g)
        /\ \A d \in (g + 1)..WalkStart(D) : SnapshotExists(st, c, d)

Unchanged(c, d) ==
    /\ SnapshotExists(store, c, d)
    /\ store[c][DateIso(d)] = pre[c][DateIso(d)]

\* C5: if the collection holds snapshots for a contiguous run of days ending
\* at the reference date D, then after a run of its Retention Pruner no
\* snapshot dated before D-1 is left and those for D and D-1 are as they were.
C5_PruneContiguousRun ==
    \A c \in Collections :
        ( /\ Ran(PrunerOf(c))
          /\ \E lo \in 0..execution_date :
                 SnapshotDays(pre, c) = lo..execution_date )
        => /\ status = "success"
           /\ \A d \in SnapshotDays(pre, c) :
                  IF d < execution_date - 1
                  THEN ~SnapshotExists(store, c, d)
                  ELSE Unchanged(c, d)
           /\ SnapshotDays(store, c) \subseteq SnapshotDays(pre, c)

C5_Witness ==
    /\ Ran("clear_old_schemas")
    /\ \A c \in SchemaCollections :
          /\ SnapshotDays(pre, c) = 0..execution_date
          /\ Cardinality(SnapshotDays(pre, c)) >= 4
          /\ SnapshotDays(store, c) = {execution_date - 1, execution_date}

\* C6: if the snapshots for D-2 .. D-k+1 exist and the one for D-k (k >= 2) is
\* missing, a run of the Retention Pruner deletes exactly those for
\* D-2 .. D-k+1 and leaves every other snapshot, the older ones included, as
\* it was; the walk never passes D-k, and every step of it either ends the
\* loop or moves one day back, so it ends.
C6_GapState ==
    \A c \in Collections :
        LET g == FirstMissing(pre, c, execution_date)
        IN  /\ Ran(PrunerOf(c)) =>
                /\ SnapshotDays(store, c) =
                       SnapshotDays(pre, c) \ ((g + 1)..WalkStart(execution_date))
                /\ \A d \in SnapshotDays(store, c) : Unchanged(c, d)
            /\ (pc = "walk_" \o c) =>
                /\ walk_date \in g..WalkStart(execution_date)
                /\ SnapshotDays(store, c) =
                       SnapshotDays(pre, c) \ ((walk_date + 1)..WalkStart(execution_date))

C6_StepsDown ==
    (~Idle) => \/ (pc' = pc /\ walk_date' = walk_date - 1)
               \/ (pc' # pc /\ ~Exists(store[pc_collection], DateIso(walk_date)))

\* C6: the retention walk deletes exactly the run of snapshots between D-2
\* and the first missing day, leaves the rest in place, and always ends.
C6_PruneStopsAtGap ==
    /\ []C6_GapState
    /\ [][C6_StepsDown]_vars
    /\ (~Idle) ~> Idle

C6_Witness ==
    /\ Ran("clear-old-source-data")
    /\ LET g == FirstMissing(pre, COLLECTION_SOURCES_KEY, execution_date)
       IN  /\ g + 1 <= WalkStart(execution_date)
           /\ \E d \in 0..(g - 1) : SnapshotExists(store, COLLECTION_SOURCES_KEY, d)

----------------------------------------------------------------------------
(* The snapshotters *)

SnapshotterOf(c) ==
    IF c = COLLECTION_SOURCES_KEY THEN "get_news_sources" ELSE "get_data_schemas"

\* the API gave the snapshotter something to snapshot (a sources list, which
\* may be empty, or one sample object of each kind)
FetchedSample ==
    task_id = "get_data_schemas" =>
        (Len(fetched.sources) > 0 /\ Len(fetched.top_headlines) > 0)

\* the snapshot of collection c is what the run fetched
SnapshotIsFetched(c) ==
    LET doc == store[c][DateIso(execution_date)]
    IN  CASE c = COLLECTION_SOURCES_KEY -> doc = fetched
          [] c = SOURCES_SCHEMA_KEY ->
                 doc = [keys |-> fetched.sources[Len(fetched.sources)]]
          [] c = ARTICLES_SCHEMA_KEY ->
                 doc = [keys |-> fetched.top_headlines[Len(fetched.top_headlines)]]

\* C12: a run of a Snapshotter for D that fetched its state ends successfully
\* with the snapshot for D present and equal to what the run fetched, also
\* when a snapshot for D was there before, and every other document of the
\* collection is as it was; a run whose fetch has no sample writes nothing.
C12_SnapshotOverwrite ==
    \A c \in Collections :
        Ran(SnapshotterOf(c)) =>
            IF FetchedSample
            THEN /\ status = "success"
                 /\ SnapshotExists(store, c, execution_date)
                 /\ SnapshotIsFetched(c)
                 /\ DOMAIN store[c] = DOMAIN pre[c] \cup {DateIso(execution_date)}
                 /\ \A k \in DOMAIN pre[c] \ {DateIso(execution_date)} :
                        store[c][k] = pre[c][k]
            ELSE status = "failed" /\ store = pre

\* a snapshot for D was there with other content, next to another day's
C12_Witness ==
    /\ Ran("get_data_schemas")
    /\ status = "success"
    /\ \A c \in SchemaCollections :
           /\ SnapshotExists(pre, c, execution_date)
           /\ pre[c][DateIso(execution_date)] # store[c][DateIso(execution_date)]
           /\ \E d \in Days : d # execution_date /\ SnapshotExists(pre, c, d)

\* the days collection c may hold a snapshot of once the run of day D is over
Retained(D) == {d \in {D - 1, D} : d >= 0}

\* C13: in consecutive daily runs from an empty store, once the pruner of day
\* D has finished each collection of its branch holds exactly the snapshots
\* for D and D-1 (only D after the first run), so never more than two; while
\* the run of a day is under way it holds at most the one of D-2 besides.
C13_RetentionAcrossDays ==
    \A c \in Collections :
        /\ Ran(PrunerOf(c)) =>
               /\ status = "success"
               /\ DOMAIN store[c] = {DateIso(d) : d \in Retained(execution_date)}
               /\ Cardinality(DOMAIN store[c]) <= 2
        /\ DOMAIN store[c] \subseteq
               {DateIso(d) : d \in Retained(execution_date) \cup {execution_date - 2}}

\* the pruner of a fourth or later day has deleted the snapshot of D-2
C13_Witness ==
    /\ Ran("clear_old_schemas")
    /\ execution_date >= 3
    /\ \A c \in SchemaCollections :
           /\ SnapshotDays(pre, c) = {execution_date - 2, execution_date - 1, execution_date}
           /\ SnapshotDays(store, c) = {execution_date - 1, execution_date}

----------------------------------------------------------------------------
(* The messages *)

\* the notifier that published `m` found both documents of m's collection
OnDiffPath(m) ==
    /\ Exists(store[m.about], PrevExecutionDateKey(execution_date))
    /\ Exists(store[m.about], ExecutionDateKey(execution_date))

Identifiers == SourceIds \cup {"id", "name", "url", "title"}

\* C11: every message a Diff Notifier publishes, on the diff path and on the
\* schema bootstrap path, is a JSON object with exactly one key, `new` or
\* `remove`, mapped to a list of identifiers; on the diff path the list is
\* never empty, and `remove` is published on the diff path only.
C11_WireFormat ==
    \A i \in 1..Len(published) :
        LET m == published[i]
        IN  /\ DOMAIN m.data \in {{"new"}, {"remove"}}
            /\ \A k \in DOMAIN m.data :
                   /\ m.data[k] \subseteq Identifiers
                   /\ OnDiffPath(m) => m.data[k] # {}
                   /\ k = "remove" => OnDiffPath(m)

\* a run on the diff path that published a `remove` and a `new` message about
\* one collection and a single message about the other, one of whose
\* differences is empty
C11_Witness ==
    /\ Ran("check_data_schemas")
    /\ \E i, j \in 1..Len(published) :
           /\ published[i].about = published[j].about
           /\ OnDiffPath(published[i])
           /\ DOMAIN published[i].data = {"remove"}
           /\ DOMAIN published[j].data = {"new"}
    /\ \E c \in SchemaCollections :
           /\ Exists(store[c], PrevExecutionDateKey(execution_date))
           /\ Exists(store[c], ExecutionDateKey(execution_date))
           /\ Len(PublishedAbout(c)) = 1

\* the topics a notifier checks before it publishes
TopicsOf(id) ==
    CASE id = "publish_news_sources" -> {TopicPath(COLLECTION_SOURCES_KEY)}
      [] id = "check_data_schemas" ->
             {TopicPath(SOURCES_SCHEMA_SOURCES_KEY), TopicPath(ARTICLES_SCHEMA_SOURCES_KEY)}
      [] OTHER -> {}

AllTopics == TopicsOf("publish_news_sources") \cup TopicsOf("check_data_schemas")

C17_State ==
    \* every message was published to a topic that exists
    /\ \A i \in 1..Len(published) : published[i].topic \in topics
    \* after a notifier's checks its topics exist
    /\ Idle => TopicsOf(task_id) \subseteq topics
    \* the check creates the topic if it is missing, and only then
    /\ \A t \in AllTopics :
           /\ t \in check_pubsub_topic(topics, t)
           /\ check_pubsub_topic(topics, t) \ {t} = topics \ {t}
           /\ t \in topics => check_pubsub_topic(topics, t) = topics
           /\ check_pubsub_topic(check_pubsub_topic(topics, t), t) = check_pubsub_topic(topics, t)

\* a task creates the topics it checks and finds missing, and no others
C17_Creates ==
    /\ topics \subseteq topics'
    /\ topics' \ topics = TopicsOf(task_id') \ topics

\* C17: check_pubsub_topic creates the topic exactly if it is not among the
\* existing topics, so after it the topic exists and a second call creates
\* nothing; every message a Diff Notifier publishes goes to a topic that
\* exists.
C17_LazyTopic ==
    /\ []C17_State
    /\ [][(task_id' \in {"publish_news_sources", "check_data_schemas"} /\ Idle) => C17_Creates]_vars

\* a notifier has published on the diff path when all topics were there
C17_Witness ==
    /\ Ran("check_data_schemas")
    /\ Len(published) >= 3
    /\ topics = TopicsOf("check_data_schemas")
    /\ \A i \in 1..Len(published) : OnDiffPath(published[i])

\* C19: the key under which the Diff Notifier of day D looks yesterday's
\* snapshot up is the key under which the Snapshotter of day D-1 wrote it: once
\* the Snapshotter has run on D-1 and on D, the notifier of D finds both
\* documents and takes the both-exist path.
C19_SnapshotKeysAgree ==
    \A c \in Collections :
        ( /\ Ran(NotifierOf(c))
          /\ SnapshotExists(store, c, execution_date - 1)
          /\ SnapshotExists(store, c, execution_date) )
        => /\ PrevExecutionDateKey(execution_date) = ExecutionDateKey(execution_date - 1)
           /\ Exists(store[c], PrevExecutionDateKey(execution_date))
           /\ Exists(store[c], ExecutionDateKey(execution_date))

\* the topic of the messages about a snapshot kind
TopicFor(c) ==
    CASE c = COLLECTION_SOURCES_KEY -> TopicPath(COLLECTION_SOURCES_KEY)
      [] c = SOURCES_SCHEMA_KEY -> TopicPath(SOURCES_SCHEMA_SOURCES_KEY)
      [] c = ARTICLES_SCHEMA_KEY -> TopicPath(ARTICLES_SCHEMA_SOURCES_KEY)

\* C20: every message about the source-schema snapshot is published to the
\* sources-schema topic, every message about the article-schema snapshot to
\* the articles-schema topic, every message of CheckAndPublishNewsSources to
\* the sources topic; no message goes to another kind's topic.
C20_TopicRouting ==
    \A i \in 1..Len(published) : published[i].topic = TopicFor(published[i].about)

----------------------------------------------------------------------------
(* The DAG run *)

Started(t) == ti[t] \in {"running", "success", "up_for_retry", "failed"}

Completed(t) == ti[t] = "success"

\* <<a, b>>: a completes before b starts
C7_Orderings ==
    {<<"ping_news_api", t>> : t \in Tasks \ {"ping_news_api"}}
    \cup { <<"get_data_schemas", "check_data_schemas">>,
           <<"check_data_schemas", "clear_old_schemas">>,
           <<"get_news_sources", "publish_news_sources">>,
           <<"publish_news_sources", "clear-old-source-data">>,
           <<"clear_old_schemas", "get_data_api">>,
           <<"clear-old-source-data", "get_data_api">>,
           <<"get_data_api", "check_and_create_big_query_table">>,
           <<"check_and_create_big_query_table", "loads_data_to_big_query">> }

\* C7: in a run of the DAG the liveness probe completes before any other
\* task starts; in each branch Snapshotter, Diff Notifier and Retention
\* Pruner run in that order; the Article Fetcher starts after both pruners,
\* the Table Provisioner after the fetcher, the Warehouse Loader after the
\* provisioner.
C7_TaskOrdering ==
    \A o \in C7_Orderings : Started(o[2]) => Completed(o[1])

\* the whole run has succeeded
C7_Witness ==
    /\ \A t \in Tasks : Completed(t)
    /\ \E t \in Tasks : try_number[t] = 2

\* the two branches are not ordered: either can be over before the other starts
C7_SchemaBranchFirst ==
    Completed("clear_old_schemas") /\ ~Started("get_news_sources")

C7_SourcesBranchFirst ==
    Completed("clear-old-source-data") /\ ~Started("get_data_schemas")

----------------------------------------------------------------------------
(* The article fetcher *)

DocIds(p) == DOMAIN articles[p]

\* C8: an article's document id is a function of its URL alone, whatever the
\* keyword and the fetch; a partition holds at most one document per URL; and
\* running the fetcher again for the same date with the same API responses
\* leaves every partition as it is.
C8_FetchIdempotent ==
    /\ \A p \in Partitions : \A id \in DocIds(p) :
          /\ articles[p][id].id = id
          /\ id = Md5(articles[p][id].url)
    /\ \A p \in Partitions : \A i, j \in DocIds(p) :
          articles[p][i].url = articles[p][j].url => i = j
    /\ Ran("get_data_api") =>
          GetData_(articles, api_response, dev_mode, execution_date) = articles

\* a second fetch for the same date with the same responses has run, a URL is
\* stored under both keywords, and another date holds articles too
C8_Witness ==
    /\ Ran("get_data_api")
    /\ articles_pre.last = "get_data_api"
    /\ articles_pre.date = execution_date
    /\ articles_pre.response = api_response
    /\ articles_pre.docs = articles
    /\ \E id \in DocIds(<<DateIso(execution_date), "k1">>) :
          id \in DocIds(<<DateIso(execution_date), "k2">>)
    /\ \E p \in Partitions : p[1] # DateIso(execution_date) /\ DocIds(p) # {}

\* the API has an empty page for `keyword`
ReturnsEmptyPage(response, keyword) ==
    \E n \in 1..(Len(response[keyword]) + 1) : PageOf(response, keyword, n) = <<>>

\* the loop of the i-th keyword is over
KeywordDone(i) == keyword_index = 0 \/ keyword_index > i

Fetching == pc = "fetch"

Keyword(i) == NEWSAPI_QUERY_KEYWORDS[i]

C14_Pages ==
    (task_id = "get_data_api") =>
        \A i \in 1..Len(NEWSAPI_QUERY_KEYWORDS) :
            LET asked == requested[i]
                received(n) == PageOf(api_response, Keyword(i), n)
                stored == articles[<<DateIso(execution_date), Keyword(i)>>]
            IN  \* pages 1, 2, 3, ... in order
                /\ asked = [n \in 1..Len(asked) |-> n]
                \* no page is requested after an empty one
                /\ \A n \in 1..(Len(asked) - 1) : received(n) # <<>>
                \* every article of every page received is stored
                /\ \A n \in 1..Len(asked) : \A a \in 1..Len(received(n)) :
                       /\ Exists(stored, Md5(received(n)[a].url))
                       /\ stored[Md5(received(n)[a].url)].url = received(n)[a].url
                \* development mode: at most 10 pages
                /\ dev_mode => Len(asked) <= DevPageCap
                \* the loop of a keyword ends on an empty page, or on the cap
                /\ KeywordDone(i) =>
                       \/ Len(asked) > 0 /\ received(Len(asked)) = <<>>
                       \/ dev_mode /\ Len(asked) = DevPageCap
                \* outside development mode it ends only on an empty page
                /\ (KeywordDone(i) /\ ~dev_mode) => ReturnsEmptyPage(api_response, Keyword(i))

\* the run ends where the whole handler ends
C14_SameAsHandler ==
    (Ran("get_data_api") /\ status = "success") =>
        articles = GetData_(articles_pre.docs, api_response, dev_mode, execution_date)

\* C14: for each keyword the fetcher requests pages 1, 2, 3, ... in order,
\* stores every article of every non-empty page and requests no page after the
\* first empty one; in development mode it requests at most 10 pages per
\* keyword and always ends; outside development mode it ends if the API has an
\* empty page for every keyword, and only then.
C14_Pagination ==
    /\ [](C14_Pages /\ C14_SameAsHandler)
    /\ (Fetching /\ dev_mode) ~> Idle
    /\ (Fetching /\ \A i \in 1..Len(NEWSAPI_QUERY_KEYWORDS) :
                        ReturnsEmptyPage(api_response, Keyword(i))) ~> Idle
    /\ [](( /\ Fetching
            /\ ~dev_mode
            /\ ~ReturnsEmptyPage(api_response, Keyword(keyword_index)) ) => []Fetching)

\* a development-mode run has ended on the cap for both keywords, after a run
\* of the day before
C14_Witness ==
    /\ Ran("get_data_api")
    /\ dev_mode
    /\ execution_date = 1
    /\ \A i \in 1..Len(NEWSAPI_QUERY_KEYWORDS) :
           /\ Len(requested[i]) = DevPageCap
           /\ PageOf(api_response, Keyword(i), DevPageCap + 1) # <<>>

\* outside development mode a run is still asking for pages after page 10
C14_WitnessEndless ==
    /\ Fetching
    /\ ~dev_mode
    /\ page > DevPageCap + 1

\* a run outside development mode has stopped at an empty page with pages
\* after it
C14_WitnessEmptyPage ==
    /\ Ran("get_data_api")
    /\ ~dev_mode
    /\ \E i \in 1..Len(NEWSAPI_QUERY_KEYWORDS) :
           /\ Len(requested[i]) = 2
           /\ PageOf(api_response, Keyword(i), 3) # <<>>

----------------------------------------------------------------------------
(* The warehouse loader *)

\* the rows the last load inserted
Inserted == SubSeq(rows, Len(rows_pre.rows) + 1, Len(rows))

KeywordIndex(keyword) ==
    CHOOSE i \in 1..Len(NEWSAPI_QUERY_KEYWORDS) : NEWSAPI_QUERY_KEYWORDS[i] = keyword

\* the row is the document with id, date and the cut publishedAt
RowOf(row, id, doc, D) ==
    /\ DOMAIN row = DOMAIN doc \cup {"id", "date", "publishedAt"}
    /\ \A k \in DOMAIN doc \ {"id", "date", "publishedAt"} : row[k] = doc[k]
    /\ row["id"] = id
    /\ row["date"] = DateIso(D)
    /\ Len(row["publishedAt"]) <= PublishedAtLen
    /\ \A n \in 1..Len(doc["publishedAt"]) :
           IF n <= PublishedAtLen
           THEN n <= Len(row["publishedAt"]) /\ row["publishedAt"][n] = doc["publishedAt"][n]
           ELSE n > Len(row["publishedAt"])

C18_State ==
    (Ran("loads_data_to_big_query") /\ status = "success") =>
        LET D == execution_date
            partition(i) == articles[<<DateIso(D), NEWSAPI_QUERY_KEYWORDS[i]>>]
            \* where the rows of the i-th keyword start
            RECURSIVE before(_)
            before(i) == IF i = 1 THEN 0 ELSE before(i - 1) + Len(stream(partition(i - 1)))
        IN  \* what was there is there, before the new rows
            /\ Len(rows) >= Len(rows_pre.rows)
            /\ SubSeq(rows, 1, Len(rows_pre.rows)) = rows_pre.rows
            \* one row per document, keyword by keyword, in iteration order
            /\ Len(Inserted) = before(Len(NEWSAPI_QUERY_KEYWORDS) + 1)
            /\ \A i \in 1..Len(NEWSAPI_QUERY_KEYWORDS) :
                   \A id \in DOMAIN partition(i) :
                       Cardinality({n \in 1..Len(Inserted) :
                           /\ Inserted[n]["id"] = id
                           /\ Inserted[n]["keyword"] = NEWSAPI_QUERY_KEYWORDS[i]}) = 1
            /\ \A i \in 1..Len(NEWSAPI_QUERY_KEYWORDS) :
                   \A j \in 1..Len(stream(partition(i))) :
                       RowOf(Inserted[before(i) + j], stream(partition(i))[j].id,
                             partition(i)[stream(partition(i))[j].id], D)
            \* a second load for the same date inserts the rows of the first again
            /\ (rows_pre.last = "loads_data_to_big_query" /\ rows_pre.date = D) =>
                   /\ Len(rows_pre.rows) >= Len(Inserted)
                   /\ SubSeq(rows_pre.rows, Len(rows_pre.rows) - Len(Inserted) + 1,
                              Len(rows_pre.rows)) = Inserted

C18_AppendOnly ==
    /\ Len(rows') >= Len(rows)
    /\ SubSeq(rows', 1, Len(rows)) = rows

\* C18: a run of the loader for D inserts one row per article document of the
\* (D, keyword) partitions, keyword by keyword and within a keyword in the
\* order of iteration; a row is the document with id the document id, date D
\* and publishedAt cut to its first 19 characters; the rows already there stay
\* as they are, so a URL under k keywords gives k rows with one id and a
\* second run inserts the same rows again.
C18_WarehouseLoader ==
    /\ []C18_State
    /\ [][C18_AppendOnly]_vars

\* the second of two loads for a date: a URL under both keywords has a row
\* for each in both loads, and a publishedAt has been cut
C18_Witness ==
    /\ Ran("loads_data_to_big_query")
    /\ status = "success"
    /\ rows_pre.last = "loads_data_to_big_query"
    /\ rows_pre.date = execution_date
    /\ Len(Inserted) >= 3
    /\ Len(rows) = Len(rows_pre.rows) + Len(Inserted)
    /\ \E m, n \in 1..Len(Inserted) :
           /\ Inserted[m]["id"] = Inserted[n]["id"]
           /\ Inserted[m]["keyword"] # Inserted[n]["keyword"]
    /\ \E id \in DOMAIN articles[<<DateIso(execution_date), "k2">>] :
           Len(articles[<<DateIso(execution_date), "k2">>][id].publishedAt) > PublishedAtLen
    /\ Cardinality({n \in 1..Len(rows) : rows[n] = Inserted[1]}) >= 2

\* the loader run by itself before the table is there fails and inserts nothing
C18_WitnessNoTable ==
    /\ Ran("loads_data_to_big_query")
    /\ status = "failed"
    /\ rows = <<>>

----------------------------------------------------------------------------
(* Client construction *)

\* the call of t has read the key and goes on
Reads(t) == cpc[t] = "call" /\ cpc'[t] # "call"

C15_ReadLeavesFlag ==
    \A t \in Callers :
        Reads(t) =>
            /\ flag_ttl' = flag_ttl
            /\ flag_read'[t] = (IF flag_ttl > 0 THEN "set" ELSE "unset")
            /\ cpc'[t] = (IF flag_ttl > 0 THEN "sleep_timeout" ELSE "construct")

\* a call sets the key only in its last step, after its client is there
C15_SetsLast ==
    \A t \in Callers :
        /\ (cpc[t] = "set_timeout" /\ cpc'[t] # "set_timeout") => flag_ttl' = FlagExpiry
        /\ (cpc[t] # "set_timeout" /\ cpc'[t] # cpc[t]) => flag_ttl' = flag_ttl

\* C15: the cooldown key is checked and set in separate steps.  The read of
\* a call leaves the key as it is, and the call sleeps before constructing
\* exactly if it read the key set; the key is set only by the last step of a
\* call, after its construction.  So two calls can both read it unset and
\* both construct without sleeping (the state C15_Witness).
C15_CheckThenSet ==
    /\ [][C15_ReadLeavesFlag /\ C15_SetsLast]_vars
    /\ [](\A t \in Callers :
             /\ cpc[t] = "sleep_timeout" => flag_read[t] = "set"
             /\ (flag_read[t] = "unset" /\ failures[t] = 0) => remaining[t] = 0)

\* both calls have read the key unset and constructed their clients in the
\* same second, neither having slept
C15_Witness ==
    /\ \A t \in Callers :
           /\ flag_read[t] = "unset"
           /\ failures[t] = 0
           /\ client[t]
           /\ since[t] = 0
    /\ \E t \in Callers : cpc[t] = "returned" /\ flag_ttl > 0

C16_State ==
    \A t \in Callers :
        \* no DeadlineExceeded leaves the call
        /\ cpc[t] # "raised"
        \* the call returns with a client only
        /\ cpc[t] = "returned" => client[t]
        /\ client[t] <=> cpc[t] \in {"set_timeout", "returned"}
        \* every failure is followed by a sleep and another try
        /\ cpc[t] = "sleep_retry" => (retries[t] = failures[t] - 1 /\ ~client[t])
        /\ cpc[t] \in {"construct", "set_timeout", "returned"} => retries[t] = failures[t]
        \* the key is set once, at the end, after the construction
        /\ sets[t] = (IF cpc[t] = "returned" THEN 1 ELSE 0)

\* C16: _get_google_cloud_client lets no DeadlineExceeded out and returns only
\* with a client; after each DeadlineExceeded it sleeps and tries again; it
\* sets the cooldown key only after a construction has succeeded, once per
\* call; and a call whose construction succeeds in the end returns.
C16_ClientRetry ==
    /\ []C16_State
    /\ \A t \in Callers : (cpc[t] = "call") ~> (cpc[t] = "returned")

\* a call has returned after sleeping on the key and after two failures
C16_Witness ==
    \E t \in Callers :
        /\ cpc[t] = "returned"
        /\ flag_read[t] = "set"
        /\ failures[t] >= 2
        /\ retries[t] = failures[t]
        /\ client[t]

----------------------------------------------------------------------------
(* The table provisioner *)

\* C9: a run of CheckAndCreateBigQueryTable right after another one, with the
\* same declared schema, leaves dataset, table and schema as they were.
C9_ProvisionIdempotent ==
    Ran("check_and_create_big_query_table") =>
        CheckAndCreateBigQueryTable_(bq, declared) = bq

\* the second of two runs in a row, on a table with fields
C9_Witness ==
    /\ Ran("check_and_create_big_query_table")
    /\ bq_pre.last = "check_and_create_big_query_table"
    /\ bq_pre.table = bq.table
    /\ Len(bq.table.schema) = 2
    /\ Len(declared) = 2

RECURSIVE Covers(_, _)

\* every item of the declared dict, nested ones too, is a field of `fields`
Covers(fields, table_schema) ==
    \A j \in 1..Len(table_schema) :
        \E i \in 1..Len(fields) :
            /\ fields[i].name = table_schema[j][1]
            /\ ("fields" \in DOMAIN table_schema[j][2])
                   => Covers(fields[i].fields, table_schema[j][2].fields)

\* C10: after a run every field the table had is still there with its type,
\* and every declared field, nested ones too, is in the resulting schema.
C10_SchemaIsUnion ==
    Ran("check_and_create_big_query_table") =>
        /\ Len(bq_pre.table.schema) <= Len(bq.table.schema)
        /\ \A i \in 1..Len(bq_pre.table.schema) :
              /\ bq.table.schema[i].name = bq_pre.table.schema[i].name
              /\ bq.table.schema[i].field_type = bq_pre.table.schema[i].field_type
        /\ Covers(bq.table.schema, declared)

====
